---- MODULE Spec2Model ----
(***************************************************************************)
(* Model of src/app.py: the marker-driven text extractors                  *)
(* (parse_service_period, parse_exempt_line, parse_ad_number,              *)
(* parse_between, parse_section, parse_roles), the record assembler        *)
(* parse_job_info, and the two-stage thread-pool scraper                   *)
(* scrape_jobs_concurrent.                                                 *)
(*                                                                         *)
(* A text is a sequence of tokens.  A token is either one character or a   *)
(* multi-character literal of the source that the patterns only ever match *)
(* as a whole:                                                             *)
(*   "SP" space, "NL" line break, "-" hyphen, ":" colon, "#" hash,         *)
(*   "1" "2" "3" "4" digits, "a" "b" and the lower-case words: ordinary    *)
(*   letters / words,                                                      *)
(*   "**"       two asterisks                                              *)
(*   "ARROW"    the arrow glyph U+2B05 U+FE0F                              *)
(*   "ROLES"    the roles title            "QUAL"   the qualifications     *)
(*   "UNITINFO" the unit-details title     "TERMS"  the service-terms      *)
(*   "UNIT"     the unit-type label        "AREA"   the area label         *)
(*   "PERIOD"   the upcoming-service-period label                          *)
(*   "AD" "NUM" the two words of the ad-number label                       *)
(*   "CLOCK"    the alarm-clock glyph      "SPEAKER" the loudspeaker glyph *)
(*   "TEMPPERM" the phrase 'temporary or permanent'                        *)
(*   "STOP"     the prohibition glyph U+26D4                               *)
(*   "HAND"     U+1F590, "TONE" U+1F3FB (the hand glyph is HAND TONE)      *)
(*   "PTOR"     the bare word 'exemption', "MAAGAR" the bare word 'pool'   *)
(*   "NOTREL"   'not relevant'                                             *)
(*   "HOLD"     'for holders of "exemption"'  (contains the word PTOR)     *)
(*   "NOTPTOR"  '(not exempt!)'               (contains the word PTOR)     *)
(*   "POOL"     'affiliated with "pool"'      (contains the word MAAGAR)   *)
(*   "NOT_FOUND" / "NO_ROLES" the two sentinel strings, "YES" / "NO".      *)
(***************************************************************************)
EXTENDS Integers, Sequences, FiniteSets, TLC

\* pc, arg, ret: one call of an extractor (its argument and its return value)
\* the others: one run of scrape_jobs_concurrent(start_id, end_id)
VARIABLES pc, arg, ret,
          phase, start_id, end_id, web, dl, html_results, ps, parsed_lists, data, raised

vars == <<pc, arg, ret, phase, start_id, end_id, web, dl, html_results, ps, parsed_lists, data, raised>>

fnVars == <<pc, arg, ret>>

scrapeVars == <<phase, start_id, end_id, web, dl, html_results, ps, parsed_lists, data, raised>>

(***************************************************************************)
(* Character classes and string helpers                                    *)
(***************************************************************************)
\* \s
IsSpace(c) == c \in {"SP", "NL"}

\* \d
IsDigit(c) == c \in {"1", "2", "3", "4"}

\* \S+ matches the whole token: no whitespace in it (the literals of several
\* words hold spaces)
IsSolid(c) ==
    /\ ~IsSpace(c)
    /\ c \notin {"QUAL", "UNITINFO", "TERMS", "UNIT", "AREA", "PERIOD", "TEMPPERM",
                 "NOTREL", "HOLD", "NOTPTOR", "POOL"}

\* . (any character but a line break)
IsDot(c) == c # "NL"

\* position after a greedy \s* that starts at i
SkipSpace(s, i) ==
    CHOOSE j \in i..(Len(s) + 1) :
        /\ \A k \in i..(j - 1) : IsSpace(s[k])
        /\ (j = Len(s) + 1 \/ ~IsSpace(s[j]))

\* position after a greedy run of character c that starts at i
SkipRun(s, i, c) ==
    CHOOSE j \in i..(Len(s) + 1) :
        /\ \A k \in i..(j - 1) : s[k] = c
        /\ (j = Len(s) + 1 \/ s[j] # c)

\* position after a greedy .* that starts at i (the end of the line)
SkipDot(s, i) ==
    CHOOSE j \in i..(Len(s) + 1) :
        /\ \A k \in i..(j - 1) : IsDot(s[k])
        /\ (j = Len(s) + 1 \/ ~IsDot(s[j]))

\* str.strip()
Strip(s) ==
    LET keep == {k \in 1..Len(s) : ~IsSpace(s[k])}
    IN  IF keep = {} THEN <<>>
        ELSE LET lo == CHOOSE k \in keep : \A m \in keep : k <= m
                 hi == CHOOSE k \in keep : \A m \in keep : k >= m
             IN  SubSeq(s, lo, hi)

\* needle in s
Contains(s, needle) ==
    \E k \in 1..(Len(s) - Len(needle) + 1) :
        SubSeq(s, k, k + Len(needle) - 1) = needle

\* least element of a non-empty set of integers
Min(S) == CHOOSE x \in S : \A y \in S : x <= y

\* greatest element of a non-empty set of integers
Max(S) == CHOOSE x \in S : \A y \in S : x >= y

(***************************************************************************)
(* parse_service_period                                                    *)
(***************************************************************************)
\* the ends i of group 1 for which ^\s*(\S+)\s*-\s*(\S+)\s*$ matches t
PeriodSplits(t) ==
    {i \in 1..Len(t) :
        /\ \A k \in 1..i : IsSolid(t[k])
        /\ LET h == SkipSpace(t, i + 1)
           IN  /\ h <= Len(t)
               /\ t[h] = "-"
               /\ LET g == SkipSpace(t, h + 1)
                  IN  /\ g <= Len(t)
                      /\ \A k \in g..Len(t) : IsSolid(t[k])}

\* a mutant that demands whitespace on both sides of the hyphen
parse_service_period_ws(text) ==
    LET t == Strip(text)
        S == {i \in PeriodSplits(t) : IsSpace(t[i + 1]) /\ IsSpace(t[SkipSpace(t, i + 1) + 1])}
    IN  IF S = {} THEN <<<<>>, <<>>>>
        ELSE LET i == Max(S)
             IN  <<SubSeq(t, 1, i), SubSeq(t, SkipSpace(t, SkipSpace(t, i + 1) + 1), Len(t))>>

parse_service_period(text) ==
    LET t == Strip(text)
        S == PeriodSplits(t)
    IN  IF S = {} THEN <<<<>>, <<>>>>
        ELSE LET i == Max(S)   \* group 1 is greedy
             IN  <<SubSeq(t, 1, i), SubSeq(t, SkipSpace(t, SkipSpace(t, i + 1) + 1), Len(t))>>

(***************************************************************************)
(* parse_exempt_line                                                       *)
(***************************************************************************)
\* the characters of the class [STOP HAND TONE] of the pattern
IsGlyphChar(c) == c \in {"STOP", "HAND", "TONE"}

\* the token holds one of the two words of (?:PTOR|MAAGAR)
HasWord(c) == c \in {"PTOR", "HOLD", "NOTPTOR", "MAAGAR", "POOL"}

\* the starts of a match of [glyph].*?(?:word).* in text
ExemptStarts(text) ==
    {i \in 1..Len(text) :
        /\ IsGlyphChar(text[i])
        /\ \E j \in (i + 1)..Len(text) :
              /\ HasWord(text[j])
              /\ \A k \in (i + 1)..j : IsDot(text[k])}

\* Python's None / True / False of the two flags
TriNone == "None"
TriTrue == "True"
TriFalse == "False"

PhraseNotRelHold == <<"NOTREL", "SP", "HOLD">>

parse_exempt_line(text) ==
    LET S == ExemptStarts(text)
    IN  IF S = {} THEN <<TriNone, TriNone>>
        ELSE LET i == Min(S)
                 line == SubSeq(text, i, SkipDot(text, i) - 1)
                 ptor0 == IF Contains(line, PhraseNotRelHold) THEN TriFalse
                          ELSE IF Contains(line, <<"HOLD">>) THEN TriTrue
                          ELSE TriNone
                 ptor == IF Contains(line, <<"NOTPTOR">>) THEN TriFalse ELSE ptor0
                 maagar == IF Contains(line, <<"NOTREL">>) /\ Contains(line, <<"POOL">>)
                           THEN TriFalse
                           ELSE IF Contains(line, <<"POOL">>) THEN TriTrue
                           ELSE TriNone
             IN  <<ptor, maagar>>

(***************************************************************************)
(* parse_ad_number                                                         *)
(***************************************************************************)
NotFound == <<"NOT_FOUND">>

\* the starts of a match of AD\s*NUM\s*#(\d+) in text
AdStarts(text) ==
    {i \in 1..Len(text) :
        /\ text[i] = "AD"
        /\ LET j == SkipSpace(text, i + 1)
           IN  /\ j <= Len(text)
               /\ text[j] = "NUM"
               /\ LET k == SkipSpace(text, j + 1)
                  IN  /\ k + 1 <= Len(text)
                      /\ text[k] = "#"
                      /\ IsDigit(text[k + 1])}

\* position after a greedy \d+ that starts at i
SkipDigits(s, i) ==
    CHOOSE j \in i..(Len(s) + 1) :
        /\ \A k \in i..(j - 1) : IsDigit(s[k])
        /\ (j = Len(s) + 1 \/ ~IsDigit(s[j]))

parse_ad_number(text) ==
    LET S == AdStarts(text)
    IN  IF S = {} THEN NotFound
        ELSE LET d == SkipSpace(text, SkipSpace(text, Min(S) + 1) + 1) + 1
             IN  SubSeq(text, d, SkipDigits(text, d) - 1)

(***************************************************************************)
(* parse_between, parse_section, parse_roles                               *)
(***************************************************************************)
\* the lookahead (?=\n-+\s|\nARROW|$) holds at position e (the alternatives
\* of parse_section and parse_roles are the same, in another order)
TermAt(s, e) ==
    \/ /\ e + 2 <= Len(s)
       /\ s[e] = "NL"
       /\ s[e + 1] = "-"
       /\ LET d == SkipRun(s, e + 1, "-") IN d <= Len(s) /\ IsSpace(s[d])
    \/ /\ e + 1 <= Len(s)
       /\ s[e] = "NL"
       /\ s[e + 1] = "ARROW"
    \/ e = Len(s) + 1
    \/ e = Len(s) /\ s[e] = "NL"

\* group 1, the lazy ([\s\S]*?) that starts at from: up to the nearest
\* position where the lookahead holds
Capture(s, from) ==
    SubSeq(s, from, Min({e \in from..(Len(s) + 1) : TermAt(s, e)}) - 1)

\* the positions where marker\s*: matches
MarkerStarts(s, marker) ==
    {i \in 1..Len(s) :
        /\ s[i] = marker
        /\ LET k == SkipSpace(s, i + 1) IN k <= Len(s) /\ s[k] = ":"}

\* the start of group 1 for the marker at i: after marker\s*:\s*
BodyStart(s, i) == SkipSpace(s, SkipSpace(s, i + 1) + 1)

\* the positions where ARROW\s*title\s*: matches
SectionStarts(s, title) ==
    {i \in 1..Len(s) :
        /\ s[i] = "ARROW"
        /\ LET j == SkipSpace(s, i + 1) IN j \in MarkerStarts(s, title)}

\* re.sub(r"-+\s*", "", s)
RECURSIVE SubDashes(_, _)
SubDashes(s, i) ==
    IF i > Len(s) THEN <<>>
    ELSE IF s[i] = "-" THEN SubDashes(s, SkipSpace(s, SkipRun(s, i, "-")))
    ELSE <<s[i]>> \o SubDashes(s, i + 1)

parse_between(text, start_marker) ==
    LET S == MarkerStarts(text, start_marker)
    IN  IF S = {} THEN <<>>
        ELSE Strip(Capture(text, BodyStart(text, Min(S))))

\* a mutant that removes dash-rule lines only (a hyphen run that starts a line)
RECURSIVE SubDashRules(_, _)
SubDashRules(s, i) ==
    IF i > Len(s) THEN <<>>
    ELSE IF s[i] = "-" /\ (i = 1 \/ s[i - 1] = "NL")
         THEN SubDashRules(s, SkipSpace(s, SkipRun(s, i, "-")))
    ELSE <<s[i]>> \o SubDashRules(s, i + 1)

parse_section_rules(text, section_title) ==
    LET S == SectionStarts(text, section_title)
    IN  IF S = {} THEN <<>>
        ELSE Strip(SubDashRules(Capture(text, BodyStart(text, SkipSpace(text, Min(S) + 1))), 1))

parse_section(text, section_title) ==
    LET S == SectionStarts(text, section_title)
    IN  IF S = {} THEN <<>>
        ELSE Strip(SubDashes(Capture(text, BodyStart(text, SkipSpace(text, Min(S) + 1))), 1))

\* the group (.+) of \*\*\s*(.+) for the bullet at i, as <<first, last>>;
\* <<0, 0>> when the pattern does not match at i.  \s* is greedy and gives
\* characters back from its right end until a character of . follows.
BulletGroup(s, i) ==
    LET j == SkipSpace(s, i + 1)
    IN  IF j <= Len(s) THEN <<j, SkipDot(s, j) - 1>>
        ELSE LET B == {b \in (i + 1)..Len(s) : IsDot(s[b])}
             IN  IF B = {} THEN <<0, 0>> ELSE <<Max(B), SkipDot(s, Max(B)) - 1>>

\* re.findall(r"\*\*\s*(.+)", s), scanning from position i
RECURSIVE FindBullets(_, _)
FindBullets(s, i) ==
    IF i > Len(s) THEN <<>>
    ELSE IF s[i] = "**" /\ BulletGroup(s, i)[1] # 0
         THEN <<SubSeq(s, BulletGroup(s, i)[1], BulletGroup(s, i)[2])>>
              \o FindBullets(s, BulletGroup(s, i)[2] + 1)
    ELSE FindBullets(s, i + 1)

\* a mutant that returns the first bullet only (re.search for re.findall)
parse_roles_first(text) ==
    LET S == SectionStarts(text, "ROLES")
    IN  IF S = {} THEN <<>>
        ELSE LET roles_section == Capture(text, BodyStart(text, SkipSpace(text, Min(S) + 1)))
                 roles_list == FindBullets(roles_section, 1)
             IN  IF roles_list = <<>> THEN <<>> ELSE <<Strip(roles_list[1])>>

parse_roles(text) ==
    LET S == SectionStarts(text, "ROLES")
    IN  IF S = {} THEN <<>>
        ELSE LET roles_section == Capture(text, BodyStart(text, SkipSpace(text, Min(S) + 1)))
                 roles_list == FindBullets(roles_section, 1)
             IN  [r \in 1..Len(roles_list) |-> Strip(roles_list[r])]

(***************************************************************************)
(* parse_job_info                                                          *)
(***************************************************************************)
\* html_content: None, or the page text; of a page the model keeps whether
\* it is the empty string, whether it holds the og:description meta tag, and
\* that tag's content
NoneHtml == [isNone |-> TRUE, empty |-> FALSE, meta |-> FALSE, content |-> <<>>]

EmptyHtml == [isNone |-> FALSE, empty |-> TRUE, meta |-> FALSE, content |-> <<>>]

NoMetaHtml == [isNone |-> FALSE, empty |-> FALSE, meta |-> FALSE, content |-> <<>>]

PageHtml(text) == [isNone |-> FALSE, empty |-> FALSE, meta |-> TRUE, content |-> text]

\* the return value: None, or the list of rows
NoneResult == [isNone |-> TRUE, rows |-> <<>>]

NoRoles == <<"NO_ROLES">>

\* "YES" / "NO" / "" of a tri-state flag
TriStr(b) == IF b = TriTrue THEN <<"YES">> ELSE IF b = TriFalse THEN <<"NO">> ELSE <<>>

\* sug_yehida.split(AREA ":")[0].strip() when AREA ":" is in sug_yehida
CutAtArea(sug) ==
    IF Contains(sug, <<"AREA", ":">>)
    THEN Strip(SubSeq(sug, 1, Min({k \in 1..(Len(sug) - 1) : SubSeq(sug, k, k + 1) = <<"AREA", ":">>}) - 1))
    ELSE sug

\* a mutant that keeps the empty role list
RolesOrSentinel_keep(roles) == roles

\* if not roles: roles = [sentinel]
RolesOrSentinel(roles) == IF roles = <<>> THEN <<NoRoles>> ELSE roles

\* the rows of a post whose ad number is ad_number
JobRows(post_id, text_content, ad_number) ==
    LET roles == RolesOrSentinel(parse_roles(text_content))
        service_period_raw == parse_between(text_content, "PERIOD")
        months == parse_service_period(service_period_raw)
        flags == parse_exempt_line(text_content)
        common == [ad_number |-> ad_number,
                   role |-> <<>>,
                   sug_yehida |-> CutAtArea(parse_between(text_content, "UNIT")),
                   area |-> parse_between(text_content, "AREA"),
                   qualifications |-> parse_section(text_content, "QUAL"),
                   unit_info |-> parse_section(text_content, "UNITINFO"),
                   service_terms |-> parse_section(text_content, "TERMS"),
                   service_period_raw |-> service_period_raw,
                   month_start |-> months[1],
                   month_end |-> months[2],
                   immediate |-> IF Contains(text_content, <<"CLOCK">>) THEN <<"YES">> ELSE <<"NO">>,
                   recruitment_type |-> IF Contains(text_content, <<"SPEAKER", "SP", "TEMPPERM">>)
                                        THEN <<"TEMPPERM">> ELSE <<>>,
                   ptor_str |-> TriStr(flags[1]),
                   maagar_str |-> TriStr(flags[2]),
                   link |-> <<"BASE_URL", post_id>>]
    IN  [r \in 1..Len(roles) |-> [common EXCEPT !.role = roles[r]]]

\* a mutant without the validity gate
parse_job_info_nogate(post_id, html_content) ==
    IF html_content.isNone \/ html_content.empty THEN NoneResult
    ELSE IF ~html_content.meta THEN NoneResult
    ELSE [isNone |-> FALSE,
          rows |-> JobRows(post_id, html_content.content, parse_ad_number(html_content.content))]

parse_job_info(post_id, html_content) ==
    IF html_content.isNone \/ html_content.empty THEN NoneResult
    ELSE IF ~html_content.meta THEN NoneResult
    ELSE LET ad_number == parse_ad_number(html_content.content)
         IN  IF ad_number = NotFound THEN NoneResult
             ELSE [isNone |-> FALSE, rows |-> JobRows(post_id, html_content.content, ad_number)]

(***************************************************************************)
(* Bounds and inputs                                                       *)
(***************************************************************************)
MAX_THREADS == 10

START_POST == 1

\* posts of a run whose download outcomes vary
NumPosts == 4

\* posts of a run with fixed download outcomes (more than MAX_THREADS)
PoolPosts == 11

\* longest raw service period
MaxPeriod == 5

\* longest text after the section header
MaxBody == 5

\* longest text of the exemption inputs
MaxLine == 4

\* longest text of the ad-number inputs
MaxAd == 5

\* longest text after the roles header
MaxTail == 5

\* all texts of at most n tokens of alphabet
TextsOver(alphabet, n) == UNION {[1..k -> alphabet] : k \in 0..n}

ExampleBody ==
    <<"ARROW", "ROLES", ":", "SP", "**", "SP", "driver", "NL",
      "**", "SP", "cook", "NL",
      "ARROW", "QUAL", ":", "SP", "licence", "SP", "driving", "NL",
      "AD", "SP", "NUM", "SP", "#", "1", "2", "3", "4">>

FullBody ==
    <<"UNIT", ":", "SP", "a", "SP", "AREA", ":", "SP", "b", "NL",
      "ARROW", "ROLES", ":", "NL", "**", "SP", "a", "NL",
      "ARROW", "TERMS", ":", "SP", "b", "-", "a", "NL",
      "PERIOD", ":", "SP", "a", "SP", "-", "SP", "b", "NL",
      "-", "-", "NL",
      "CLOCK", "SP", "SPEAKER", "SP", "TEMPPERM", "NL",
      "STOP", "SP", "NOTREL", "SP", "HOLD", "NL",
      "AD", "SP", "NUM", "SP", "#", "4", "2">>

NoRolesBody == <<"AREA", ":", "SP", "a", "NL", "-", "NL", "AD", "NUM", "#", "3">>

NoAdBody == <<"ARROW", "ROLES", ":", "SP", "**", "SP", "a", "NL", "AD", "NUM", "3">>

\* what the server holds for each post
Catalogue ==
    <<PageHtml(ExampleBody), PageHtml(NoAdBody), PageHtml(NoRolesBody),
      NoMetaHtml, PageHtml(FullBody), EmptyHtml>>

PageOf(post_id) == Catalogue[((post_id - 1) % Len(Catalogue)) + 1]

RolesHeader == <<"ARROW", "ROLES", ":">>

SectionHeader == <<"ARROW", "QUAL", ":">>

\* a dash rule and the ad-number line, as they end a post
AdTail == <<"NL", "-", "NL", "AD", "SP", "NUM", "SP", "#", "1", "2">>

AdTexts == TextsOver({"AD", "NUM", "#", "1", "SP"}, MaxAd)

RoleTails == TextsOver({"**", "SP", "NL", "a", "b", "-"}, MaxTail)

JobTexts ==
    AdTexts \cup {RolesHeader \o t \o AdTail : t \in RoleTails}
            \cup {t \o AdTail : t \in RoleTails}
            \cup {ExampleBody, FullBody, NoRolesBody, NoAdBody}

JobInputs ==
    {[post_id |-> START_POST, html_content |-> PageHtml(t)] : t \in JobTexts}
    \cup {[post_id |-> p, html_content |-> h] :
             p \in START_POST..(START_POST + NumPosts - 1),
             h \in {NoneHtml, EmptyHtml, NoMetaHtml, PageHtml(ExampleBody)}}

SectionTexts == {SectionHeader \o t : t \in TextsOver({"a", "-", "SP", "NL", "ARROW"}, MaxBody)}

PeriodTexts == TextsOver({"a", "b", "-", "SP"}, MaxPeriod)

ExemptTexts ==
    TextsOver({"STOP", "HAND", "TONE", "NL", "SP", "a", "NOTREL", "HOLD", "NOTPTOR", "POOL"}, MaxLine)

Outcomes == {"ok", "non200", "exception"}

\* the fixed outcomes of the run of PoolPosts posts
PoolWeb(p) == IF p % 4 = 0 THEN "non200" ELSE IF p % 5 = 0 THEN "exception" ELSE "ok"

(***************************************************************************)
(* One call of an extractor                                                *)
(***************************************************************************)
CallParseJobInfo ==
    /\ pc = "call_job"
    /\ ret' = parse_job_info(arg.post_id, arg.html_content)
    /\ pc' = "done"
    /\ UNCHANGED <<arg, scrapeVars>>

CallParseBetween ==
    /\ pc = "call_between"
    /\ ret' = [ret EXCEPT !.between = parse_between(arg, "QUAL")]
    /\ pc' = "call_section"
    /\ UNCHANGED <<arg, scrapeVars>>

CallParseSection ==
    /\ pc = "call_section"
    /\ ret' = [ret EXCEPT !.section = parse_section(arg, "QUAL")]
    /\ pc' = "done"
    /\ UNCHANGED <<arg, scrapeVars>>

CallParseServicePeriod ==
    /\ pc = "call_period"
    /\ ret' = parse_service_period(arg)
    /\ pc' = "done"
    /\ UNCHANGED <<arg, scrapeVars>>

CallParseExemptLine ==
    /\ pc = "call_exempt"
    /\ ret' = parse_exempt_line(arg)
    /\ pc' = "done"
    /\ UNCHANGED <<arg, scrapeVars>>

(***************************************************************************)
(* download_html and scrape_jobs_concurrent                                *)
(***************************************************************************)
\* a mutant whose except clause lets the exception through
download_html_raise(post_id, outcome) ==
    IF outcome = "ok" THEN [raises |-> FALSE, value |-> <<post_id, PageOf(post_id)>>]
    ELSE IF outcome = "exception" THEN [raises |-> TRUE, value |-> <<post_id, NoneHtml>>]
    ELSE [raises |-> FALSE, value |-> <<post_id, NoneHtml>>]

\* outcome: what requests.get does for the post: status 200, another
\* status, or an exception (a timeout among them)
download_html(post_id, outcome) ==
    IF outcome = "ok" THEN [raises |-> FALSE, value |-> <<post_id, PageOf(post_id)>>]
    ELSE [raises |-> FALSE, value |-> <<post_id, NoneHtml>>]

\* a mutant whose worker appends its rows to the shared list itself
parse_task_append(shared, x) ==
    [value |-> parse_job_info(x[1], x[2]),
     shared |-> shared \o parse_job_info(x[1], x[2]).rows]

\* lambda x: parse_job_info(x[0], x[1]), and what it leaves in the shared list
parse_task(shared, x) == [value |-> parse_job_info(x[1], x[2]), shared |-> shared]

\* for plist in parsed_lists: if plist: data.extend(plist)
RECURSIVE ExtendAll(_, _, _)
ExtendAll(d, lists, k) ==
    IF k > Len(lists) THEN d
    ELSE ExtendAll(IF lists[k].isNone \/ lists[k].rows = <<>> THEN d ELSE d \o lists[k].rows,
                   lists, k + 1)

Range == start_id..end_id

Queued(tasks) == {t \in DOMAIN tasks : tasks[t].st = "queued"}

Running(tasks) == {t \in DOMAIN tasks : tasks[t].st = "running"}

AllDone(tasks) == \A t \in DOMAIN tasks : tasks[t].st = "done"

\* a worker of the pool is free and t is the first task of the queue
CanStart(tasks, t) ==
    /\ t \in Queued(tasks)
    /\ \A u \in Queued(tasks) : t <= u
    /\ Cardinality(Running(tasks)) < MAX_THREADS

NewTask == [st |-> "queued", raises |-> FALSE, value |-> <<>>]

\* data = [] and the first executor.map: every download is queued
SubmitDownloads ==
    /\ phase = "start"
    /\ data' = <<>>
    /\ dl' = [p \in Range |-> NewTask]
    /\ phase' = "download"
    /\ UNCHANGED <<fnVars, start_id, end_id, web, html_results, ps, parsed_lists, raised>>

StartDownload(p) ==
    /\ phase = "download"
    /\ CanStart(dl, p)
    /\ dl' = [dl EXCEPT ![p].st = "running"]
    /\ UNCHANGED <<fnVars, phase, start_id, end_id, web, html_results, ps, parsed_lists, data, raised>>

FinishDownload(p) ==
    /\ phase = "download"
    /\ p \in Running(dl)
    /\ LET r == download_html(p, web[p])
       IN  dl' = [dl EXCEPT ![p] = [st |-> "done", raises |-> r.raises, value |-> r.value]]
    /\ UNCHANGED <<fnVars, phase, start_id, end_id, web, html_results, ps, parsed_lists, data, raised>>

\* list(executor.map(...)) and the end of the first with block: the results
\* in the order of the ids; an exception of a task is raised again here
JoinDownloads ==
    /\ phase = "download"
    /\ AllDone(dl)
    /\ IF \E p \in Range : dl[p].raises
       THEN /\ raised' = TRUE
            /\ phase' = "done"
            /\ UNCHANGED <<html_results, ps>>
       ELSE /\ html_results' = [k \in 1..(end_id - start_id + 1) |-> dl[start_id + k - 1].value]
            /\ ps' = [k \in 1..(end_id - start_id + 1) |-> NewTask]
            /\ phase' = "parse"
            /\ UNCHANGED raised
    /\ UNCHANGED <<fnVars, start_id, end_id, web, dl, parsed_lists, data>>

StartParse(k) ==
    /\ phase = "parse"
    /\ CanStart(ps, k)
    /\ ps' = [ps EXCEPT ![k].st = "running"]
    /\ UNCHANGED <<fnVars, phase, start_id, end_id, web, dl, html_results, parsed_lists, data, raised>>

FinishParse(k) ==
    /\ phase = "parse"
    /\ k \in Running(ps)
    /\ LET r == parse_task(data, html_results[k])
       IN  /\ ps' = [ps EXCEPT ![k] = [st |-> "done", raises |-> FALSE, value |-> r.value]]
           /\ data' = r.shared
    /\ UNCHANGED <<fnVars, phase, start_id, end_id, web, dl, html_results, parsed_lists, raised>>

\* list(executor.map(...)) and the end of the second with block
JoinParses ==
    /\ phase = "parse"
    /\ AllDone(ps)
    /\ parsed_lists' = [k \in 1..Len(ps) |-> ps[k].value]
    /\ phase' = "aggregate"
    /\ UNCHANGED <<fnVars, start_id, end_id, web, dl, html_results, ps, data, raised>>

\* the loop over parsed_lists and the return
Aggregate ==
    /\ phase = "aggregate"
    /\ data' = ExtendAll(data, parsed_lists, 1)
    /\ phase' = "done"
    /\ UNCHANGED <<fnVars, start_id, end_id, web, dl, html_results, ps, parsed_lists, raised>>

(***************************************************************************)
(* Specifications                                                          *)
(***************************************************************************)
ScrapeIdle ==
    /\ phase = "off"
    /\ start_id = START_POST
    /\ end_id = START_POST
    /\ web = <<>>
    /\ dl = <<>>
    /\ html_results = <<>>
    /\ ps = <<>>
    /\ parsed_lists = <<>>
    /\ data = <<>>
    /\ raised = FALSE

ScrapeStart(n) ==
    /\ pc = "off"
    /\ arg = <<>>
    /\ ret = <<>>
    /\ phase = "start"
    /\ start_id = START_POST
    /\ end_id = START_POST + n - 1
    /\ dl = <<>>
    /\ html_results = <<>>
    /\ ps = <<>>
    /\ parsed_lists = <<>>
    /\ data = <<>>
    /\ raised = FALSE

Init ==
    /\ ScrapeStart(NumPosts)
    /\ web \in [START_POST..(START_POST + NumPosts - 1) -> Outcomes]

InitPool ==
    /\ ScrapeStart(PoolPosts)
    /\ web = [p \in START_POST..(START_POST + PoolPosts - 1) |-> PoolWeb(p)]

Next ==
    \/ SubmitDownloads
    \/ \E p \in Range : StartDownload(p)
    \/ \E p \in Range : FinishDownload(p)
    \/ JoinDownloads
    \/ \E k \in DOMAIN ps : StartParse(k)
    \/ \E k \in DOMAIN ps : FinishParse(k)
    \/ JoinParses
    \/ Aggregate

Spec == Init /\ [][Next]_vars

SpecPool == InitPool /\ [][Next]_vars

InitJob ==
    /\ pc = "call_job"
    /\ arg \in JobInputs
    /\ ret = NoneResult
    /\ ScrapeIdle

SpecJob == InitJob /\ [][CallParseJobInfo]_vars

InitSection ==
    /\ pc = "call_between"
    /\ arg \in SectionTexts
    /\ ret = [between |-> <<>>, section |-> <<>>]
    /\ ScrapeIdle

NextSection == CallParseBetween \/ CallParseSection

SpecSection == InitSection /\ [][NextSection]_vars

InitPeriod ==
    /\ pc = "call_period"
    /\ arg \in PeriodTexts
    /\ ret = <<<<>>, <<>>>>
    /\ ScrapeIdle

SpecPeriod == InitPeriod /\ [][CallParseServicePeriod]_vars

InitExempt ==
    /\ pc = "call_exempt"
    /\ arg \in ExemptTexts
    /\ ret = <<TriNone, TriNone>>
    /\ ScrapeIdle

SpecExempt == InitExempt /\ [][CallParseExemptLine]_vars

(***************************************************************************)
(* Vocabulary of the properties                                            *)
(***************************************************************************)
\* the text holds the ad-number marker: the label, '#', a digit
HasAdMarker(t) ==
    \E i, j, k \in 1..Len(t) :
        /\ i < j /\ j < k /\ k < Len(t)
        /\ t[i] = "AD" /\ t[j] = "NUM" /\ t[k] = "#" /\ IsDigit(t[k + 1])
        /\ \A m \in (i + 1)..(j - 1) : IsSpace(t[m])
        /\ \A m \in (j + 1)..(k - 1) : IsSpace(t[m])

\* the post has no body: no page, an empty page, or a page without the tag
BodyAbsent(h) == h.isNone \/ h.empty \/ ~h.meta

\* the lines of s from position p on
RECURSIVE LinesFrom(_, _)
LinesFrom(s, p) ==
    LET e == SkipDot(s, p)
    IN  <<SubSeq(s, p, e - 1)>> \o (IF e > Len(s) THEN <<>> ELSE LinesFrom(s, e + 1))

\* the text of a line after its first '**', trimmed
BulletText(line) ==
    Strip(SubSeq(line, Min({k \in 1..Len(line) : line[k] = "**"}) + 1, Len(line)))

\* the line is a role bullet: '**' and text after it
IsBullet(line) == Contains(line, <<"**">>) /\ BulletText(line) # <<>>

\* the roles section of a text with the roles header
RolesSection(t) == Capture(t, BodyStart(t, SkipSpace(t, Min(SectionStarts(t, "ROLES")) + 1)))

\* the trimmed texts of the role bullets of t, in source order
Bullets(t) ==
    IF SectionStarts(t, "ROLES") = {} THEN <<>>
    ELSE LET lines == SelectSeq(LinesFrom(RolesSection(t), 1), IsBullet)
         IN  [k \in 1..Len(lines) |-> BulletText(lines[k])]

Distinct(seq) == \A i, j \in 1..Len(seq) : i # j => seq[i] # seq[j]

\* the rows differ in nothing but the role
SameButRole(rows) ==
    \A i, j \in 1..Len(rows) : [rows[i] EXCEPT !.role = <<>>] = [rows[j] EXCEPT !.role = <<>>]

\* the k-th least element of a set of integers
Kth(S, k) == CHOOSE x \in S : Cardinality({y \in S : y <= x}) = k

\* s without its hyphens and without the whitespace that follows a hyphen run
DashFree(s) ==
    LET kept == {k \in 1..Len(s) :
                    /\ s[k] # "-"
                    /\ ~(/\ IsSpace(s[k])
                         /\ \E h \in 1..(k - 1) :
                               s[h] = "-" /\ \A m \in (h + 1)..k : IsSpace(s[m]))}
    IN  [i \in 1..Cardinality(kept) |-> s[Kth(kept, i)]]

Count(s, c) == Cardinality({k \in 1..Len(s) : s[k] = c})

(***************************************************************************)
(* C1                                                                      *)
(***************************************************************************)
\* C1: a post without a body, or whose body holds no ad-number marker, yields
\* no record (None); no emitted record carries the sentinel ad number, and
\* every emitted ad number is a non-empty string of digits.
C1_ValidityGate ==
    pc = "done" =>
        /\ (BodyAbsent(arg.html_content) \/ ~HasAdMarker(arg.html_content.content))
              => (ret.isNone /\ ret.rows = <<>>)
        /\ \A r \in 1..Len(ret.rows) :
              /\ ret.rows[r].ad_number # NotFound
              /\ Len(ret.rows[r].ad_number) > 0
              /\ \A d \in 1..Len(ret.rows[r].ad_number) : IsDigit(ret.rows[r].ad_number[d])

\* a page whose text holds the label and the hash but no digit after it is rejected
C1_Witness ==
    /\ pc = "done"
    /\ ~BodyAbsent(arg.html_content)
    /\ Contains(arg.html_content.content, <<"AD", "NUM", "#">>)
    /\ ~HasAdMarker(arg.html_content.content)
    /\ ret.isNone

(***************************************************************************)
(* C2                                                                      *)
(***************************************************************************)
\* C2: a body with an ad number and N >= 1 role bullets of pairwise distinct
\* text yields exactly N records; the i-th record's role is the i-th bullet's
\* trimmed text; the records agree in every other field, the link among them,
\* which is built from the base URL and the post id.
C2_FanOut ==
    (/\ pc = "done"
     /\ ~BodyAbsent(arg.html_content)
     /\ HasAdMarker(arg.html_content.content)
     /\ Len(Bullets(arg.html_content.content)) >= 1
     /\ Distinct(Bullets(arg.html_content.content)))
    => (/\ ~ret.isNone
        /\ Len(ret.rows) = Len(Bullets(arg.html_content.content))
        /\ \A i \in 1..Len(ret.rows) :
              /\ ret.rows[i].role = Bullets(arg.html_content.content)[i]
              /\ ret.rows[i].link = <<"BASE_URL", arg.post_id>>
        /\ SameButRole(ret.rows))

ExampleRecords(quals) ==
    /\ ~ret.isNone
    /\ Len(ret.rows) = 2
    /\ ret.rows[1].role = <<"driver">>
    /\ ret.rows[2].role = <<"cook">>
    /\ \A r \in 1..2 :
          /\ ret.rows[r].ad_number = <<"1", "2", "3", "4">>
          /\ ret.rows[r].qualifications = quals

\* C4 as stated: the example body yields two records, roles 'driver' then
\* 'cook', ad number '1234', and qualifications exactly 'licence driving'.
C4_Original ==
    (pc = "done" /\ arg.html_content = PageHtml(ExampleBody))
    => ExampleRecords(<<"licence", "SP", "driving">>)

\* C4 amended: the example body yields two records, roles 'driver' then
\* 'cook', ad number '1234', and the qualifications field runs to the end of
\* the text: 'licence driving', a line break, and the ad-number line.
C4_Example ==
    (pc = "done" /\ arg.html_content = PageHtml(ExampleBody))
    => ExampleRecords(<<"licence", "SP", "driving", "NL",
                        "AD", "SP", "NUM", "SP", "#", "1", "2", "3", "4">>)

C4_Witness ==
    /\ pc = "done"
    /\ arg.html_content = PageHtml(ExampleBody)
    /\ Len(ret.rows) = 2

(***************************************************************************)
(* C5                                                                      *)
(***************************************************************************)
\* the text after the header of a section input
AfterHeader(t) == SubSeq(t, Len(SectionHeader) + 1, Len(t))

\* a dash-rule line starts at p: a line of hyphens, blanks at most after them
DashRuleAt(s, p) ==
    /\ p >= 2 /\ p <= Len(s)
    /\ s[p - 1] = "NL"
    /\ s[p] = "-"
    /\ LET d == SkipRun(s, SkipRun(s, p, "-"), "SP") IN d = Len(s) + 1 \/ s[d] = "NL"

\* an arrow marker starts the line at p
ArrowAt(s, p) == p >= 2 /\ p <= Len(s) /\ s[p - 1] = "NL" /\ s[p] = "ARROW"

\* the text up to the nearest terminator: arrow marker, dash-rule line, end
UpToTerminator(s) ==
    SubSeq(s, 1, Min({p \in 1..(Len(s) + 1) :
                         DashRuleAt(s, p) \/ ArrowAt(s, p) \/ p = Len(s) + 1}) - 1)

\* C5: the values of parse_between and parse_section stop at the nearest
\* terminator after the marker (an arrow marker, a dash-rule line, the end of
\* the text) wherever the dash-rule line stands: they hold no text from after
\* a dash-rule line, nor the dash rule, nor the terminating arrow marker.
C5_TerminatorPrecedence ==
    pc = "done" =>
        /\ ret.between = Strip(UpToTerminator(AfterHeader(arg)))
        /\ ret.section = Strip(DashFree(UpToTerminator(AfterHeader(arg))))

(***************************************************************************)
(* C10                                                                     *)
(***************************************************************************)
\* the captured body of a section input
SectionBody(t) == Capture(t, BodyStart(t, SkipSpace(t, Min(SectionStarts(t, "QUAL")) + 1)))

\* C10: the value of parse_section holds no hyphen and no leading or trailing
\* whitespace: it is the captured body without its hyphen runs and the
\* whitespace after each, trimmed, a hyphen inside ordinary text included; the
\* value of parse_between keeps every hyphen of the captured body.
C10_DashStripping ==
    pc = "done" =>
        /\ Count(ret.section, "-") = 0
        /\ ret.section = <<>> \/ (~IsSpace(ret.section[1]) /\ ~IsSpace(ret.section[Len(ret.section)]))
        /\ ret.section = Strip(DashFree(SectionBody(arg)))
        /\ Count(ret.between, "-") = Count(SectionBody(arg), "-")

\* a hyphen inside the ordinary text of the section: parse_between keeps it,
\* parse_section removes it
C10_Witness ==
    /\ pc = "done"
    /\ ret.between = <<"a", "-", "a">>
    /\ ret.section = <<"a", "a">>

(***************************************************************************)
(* C6                                                                      *)
(***************************************************************************)
\* the whitespace-delimited tokens of s from position p on
RECURSIVE Words(_, _)
Words(s, p) ==
    LET b == SkipSpace(s, p)
    IN  IF b > Len(s) THEN <<>>
        ELSE LET e == Min({k \in b..(Len(s) + 1) : k = Len(s) + 1 \/ IsSpace(s[k])})
             IN  <<SubSeq(s, b, e - 1)>> \o Words(s, e)

NoPeriod == <<<<>>, <<>>>>

\* C6 as stated: the result is a pair of months exactly when the trimmed
\* string is two whitespace-delimited tokens with a hyphen token between them
\* ('TOKEN - TOKEN'), and then it is those two tokens.
C6_Original ==
    pc = "done" =>
        LET w == Words(arg, 1)
        IN  IF Len(w) = 3 /\ w[2] = <<"-">> THEN ret = <<w[1], w[3]>> ELSE ret = NoPeriod

\* the ways to read t as TOKEN, optional whitespace, hyphen, optional
\* whitespace, TOKEN: <<end of the first token, start of the second>>
PeriodShapes(t) ==
    {x \in (1..Len(t)) \X (1..Len(t)) :
        /\ x[1] < x[2]
        /\ \A k \in 1..x[1] : IsSolid(t[k])
        /\ \A k \in x[2]..Len(t) : IsSolid(t[k])
        /\ \E h \in (x[1] + 1)..(x[2] - 1) :
              /\ t[h] = "-"
              /\ \A k \in ((x[1] + 1)..(x[2] - 1)) \ {h} : IsSpace(t[k])}

\* C6 amended: the result is a pair of months exactly when the trimmed string
\* is two non-empty whitespace-free tokens with a hyphen between them, the
\* whitespace on either side of the hyphen being optional ('TOKEN - TOKEN',
\* 'TOKEN-TOKEN'); start is then the longest first token that fits (a token
\* may hold hyphens itself) and end is the rest after the separating hyphen;
\* every other input gives ('', '').
C6_ServicePeriod ==
    pc = "done" =>
        LET t == Strip(arg)
            S == PeriodShapes(t)
        IN  IF S = {} THEN ret = NoPeriod
            ELSE /\ ret # NoPeriod
                 /\ \E x \in S :
                       /\ \A y \in S : y[1] <= x[1]
                       /\ ret = <<SubSeq(t, 1, x[1]), SubSeq(t, x[2], Len(t))>>

\* 'a-b', without whitespace, gives ('a', 'b')
C6_Witness ==
    /\ pc = "done"
    /\ arg = <<"a", "-", "b">>
    /\ ret = <<<<"a">>, <<"b">>>>

(***************************************************************************)
(* C7                                                                      *)
(***************************************************************************)
\* the line holds a prohibition or a hand glyph together with one of the words
Qualifies(line) ==
    /\ \E k \in 1..Len(line) : line[k] \in {"STOP", "HAND"}
    /\ \E k \in 1..Len(line) : HasWord(line[k])

\* the exemption flag the phrases of a line give
FlagOfLine(line) ==
    IF Contains(line, <<"NOTPTOR">>) THEN TriFalse
    ELSE IF Contains(line, PhraseNotRelHold) THEN TriFalse
    ELSE IF Contains(line, <<"HOLD">>) THEN TriTrue
    ELSE TriNone

\* C7: the flags come from the first line that holds a prohibition or hand
\* glyph together with one of the two words; on it '(not exempt!)' gives
\* False whatever else the line says, else 'not relevant for holders of
\* "exemption"' gives False, else 'for holders of "exemption"' gives True,
\* else the flag is unknown; without such a line both flags are unknown.
C7_ExemptionFlag ==
    pc = "done" =>
        LET q == SelectSeq(LinesFrom(arg, 1), Qualifies)
        IN  IF q = <<>> THEN ret = <<TriNone, TriNone>>
            ELSE ret[1] = FlagOfLine(q[1])

(***************************************************************************)
(* C8                                                                      *)
(***************************************************************************)
\* the records of data that belong to post p, in order
RecordsOf(p) == SelectSeq(data, LAMBDA r : r.link[2] = p)

\* C8: when the run has returned, no error has been raised; every post whose
\* download failed (another status than 200, or an exception) has no body
\* and no record; every other post has the records of its page.
C8_FetchFailure ==
    phase = "done" =>
        /\ ~raised
        /\ \A p \in Range :
              IF web[p] = "ok"
              THEN RecordsOf(p) = parse_job_info(p, PageOf(p)).rows
              ELSE /\ html_results[p - start_id + 1] = <<p, NoneHtml>>
                   /\ parsed_lists[p - start_id + 1].isNone
                   /\ RecordsOf(p) = <<>>

\* a run with an exception, with another status and with records
C8_Witness ==
    /\ phase = "done"
    /\ \E p \in Range : web[p] = "exception"
    /\ \E p \in Range : web[p] = "non200"
    /\ Len(data) >= 2

(***************************************************************************)
(* C9                                                                      *)
(***************************************************************************)
\* C9: the shared list stays empty until the run has aggregated; it then holds
\* the records of every post exactly once, in the order of the post ids and,
\* within a post, of the roles, whatever the order in which the download and
\* the parse tasks ran.
C9_Aggregation ==
    /\ phase # "done" => data = <<>>
    /\ (phase = "done" /\ ~raised) =>
          /\ \A i, j \in 1..Len(data) : i < j => data[i].link[2] <= data[j].link[2]
          /\ \A p \in Range :
                RecordsOf(p) = (IF web[p] = "ok" THEN parse_job_info(p, PageOf(p)).rows ELSE <<>>)
          /\ \A i \in 1..Len(data) : data[i].link[2] \in Range

\* the run of more posts than workers has returned the records of several
\* posts, two roles of one post among them
C9_Witness ==
    /\ phase = "done"
    /\ end_id - start_id + 1 > MAX_THREADS
    /\ Len(RecordsOf(start_id)) = 2
    /\ Len(data) > 4

====
